---- MODULE Spec2Model ----
(***************************************************************************)
(* Model of SubgraphAssignmentProvider (core/src/subgraph/provider.rs):    *)
(* concurrent start()/stop() calls sharing the subgraphs_running set, the  *)
(* bounded lifecycle event channel and the store's failure marker.         *)
(***************************************************************************)
EXTENDS Integers, Sequences, FiniteSets, TLC

\* ---------------------------------------------------------------- bounds
\* Number of start()/stop() calls issued in one behaviour.
MaxCalls == 3
\* Number of calls in flight at the same time.
MaxInFlight == 2
\* Buffer of the lifecycle channel (channel(100) in the source, scaled down).
ChanBuffer == 1

Calls == 1..MaxCalls
Ids == {"a", "b"}

NoId == "none"
NoManifest == [id |-> NoId, data_sources |-> <<>>]
NoError == <<"NoError">>
NoResult == <<"NoResult">>

VARIABLES
    subgraphs_running,  \* Arc<Mutex<HashSet<SubgraphDeploymentId>>>
    event_stream,       \* the root's Option<Receiver>: "Some" or "None"
    receiver,           \* "open" while the Receiver is alive, "closed" once dropped
    queue,              \* events in the channel, oldest first
    parked,             \* calls whose sender is parked, oldest first
    delivered,          \* events the consumer has received, oldest first
    enqueued,           \* every event ever enqueued, in enqueue order
    failed,             \* deployments carrying the store's failure marker
    startedOk,          \* id -> a start(id) returned Ok and no stop(id) removed id since
    owner,              \* id -> the call whose insert put id in subgraphs_running, or 0
    takes,              \* what take_event_stream() has returned: the number of
                        \* streams handed out and the latest result
    calls               \* the start()/stop() calls, one record per call

vars == <<subgraphs_running, event_stream, receiver, queue, parked, delivered,
          enqueued, failed, startedOk, owner, takes, calls>>

\* ---------------------------------------------------------------- data
StartEvent(subgraph) == [kind |-> "SubgraphStart", id |-> subgraph.id, manifest |-> subgraph]
StopEvent(i) == [kind |-> "SubgraphStop", id |-> i, manifest |-> NoManifest]

\* format!("/ipfs/{}", id)
Link(i) == <<"/ipfs/", i>>

\* SubgraphManifest::resolve: the manifest of the deployment the link names,
\* with its static data sources.
ResolvedManifest(link) == [id |-> link[2], data_sources |-> <<"static">>]

\* subgraph.data_sources.extend(data_sources)
ExtendDataSources(subgraph, ds) ==
    [subgraph EXCEPT !.data_sources = subgraph.data_sources \o ds]

AlreadyRunning(i) == <<"AlreadyRunning", i>>
NotRunning(i) == <<"NotRunning", i>>
ResolveError == <<"ResolveError">>
DynamicDataSourcesError == <<"DynamicDataSourcesError">>
Ok == <<"Ok">>

\* One call: op and id as called, pc the step it is at, subgraph the manifest
\* it holds, err the error its pipeline failed with, result what it returned;
\* inserted / removed whether it changed subgraphs_running, pre the value of
\* startedOk[id] when a stop was called, indexes the outcome of the index
\* build, marks the number of failure marker writes it issued and marked the
\* outcome of the write, sent the number of events it enqueued and pos the
\* place of its event in enqueue order, prior the calls that had returned a
\* result when it was called, event_stream the receiver field of the clone a
\* start call works on.
IdleCall == [op |-> "none", id |-> NoId, pc |-> "idle", subgraph |-> NoManifest,
             err |-> NoError, result |-> NoResult, inserted |-> FALSE,
             removed |-> FALSE, pre |-> FALSE, indexes |-> "none",
             marks |-> 0, marked |-> "none", sent |-> 0, pos |-> 0, prior |-> {},
             event_stream |-> "None"]

\* The calls that have handed a result to their caller.
HaveReturned == {d \in Calls : calls[d].result # NoResult}

\* A clone that copies the receiver field of the provider it is made from.
CloneWithReceiver(stream) == stream

\* clone_no_receivers: the clone's event_stream, whatever the root holds.
CloneNoReceivers(stream) == "None"

\* The call was issued and has neither returned nor panicked.
InFlight(c) == calls[c].pc \notin {"idle", "done", "panicked"}

\* Calls are numbered in the order they are issued.
NextCall(c) ==
    /\ calls[c].pc = "idle"
    /\ \A d \in Calls : d < c => calls[d].pc # "idle"
    /\ Cardinality({d \in Calls : InFlight(d)}) < MaxInFlight

\* Deployment ids are interchangeable: "b" names the second deployment a
\* behaviour mentions.
InUse(i) == i = "a" \/ \E d \in Calls : calls[d].id = "a"

Init ==
    /\ subgraphs_running = {}
    /\ event_stream = "Some"
    /\ receiver = "open"
    /\ queue = <<>>
    /\ parked = <<>>
    /\ delivered = <<>>
    /\ enqueued = <<>>
    /\ failed = {}
    /\ startedOk = [i \in Ids |-> FALSE]
    /\ owner = [i \in Ids |-> 0]
    /\ takes = [streams |-> 0, last |-> "NotCalled"]
    /\ calls = [c \in Calls |-> IdleCall]

\* ---------------------------------------------------------------- channel
\* Sender::clone().send(ev), first half: a fresh clone of the sender owns a
\* guaranteed slot, so the event is enqueued at once; the sender is parked
\* when the channel then holds more than its buffer.
ChanUnchanged == UNCHANGED <<queue, parked, enqueued>>

\* try_send in place of send: the event is dropped when the buffer is full.
EnqueueOrDrop(c, ev) ==
    IF Len(queue) >= ChanBuffer
    THEN ChanUnchanged
    ELSE /\ queue' = Append(queue, ev)
         /\ enqueued' = Append(enqueued, ev)
         /\ parked' = parked

Enqueue(c, ev) ==
    /\ queue' = Append(queue, ev)
    /\ enqueued' = Append(enqueued, ev)
    /\ parked' = IF Len(queue) + 1 > ChanBuffer THEN Append(parked, c) ELSE parked

IsParked(c) == \E k \in 1..Len(parked) : parked[k] = c

Unparked(c) == ~IsParked(c) \/ receiver = "closed"

Set(c, fields) == calls' = [calls EXCEPT ![c] = fields]

\* ---------------------------------------------------------------- start()
\* start(id) is called: the provider is cloned without its receiver, the link
\* is built, and the returned future has not been polled yet.
StartCall(c, i) ==
    /\ NextCall(c)
    /\ InUse(i)
    /\ Set(c, [IdleCall EXCEPT !.prior = HaveReturned, !.op = "start", !.id = i,
                               !.pc = "resolve",
                               !.event_stream = CloneNoReceivers(event_stream)])
    /\ UNCHANGED <<subgraphs_running, event_stream, receiver, queue, parked,
                   delivered, enqueued, failed, startedOk, owner, takes>>

\* SubgraphManifest::resolve(Link { link }, ...).map_err(ResolveError).await?
Resolve(c, ok) ==
    /\ calls[c].pc = "resolve"
    /\ IF ok
       THEN Set(c, [calls[c] EXCEPT !.pc = "load",
                                    !.subgraph = ResolvedManifest(Link(calls[c].id))])
       ELSE Set(c, [calls[c] EXCEPT !.pc = "map_err", !.err = ResolveError])
    /\ UNCHANGED <<subgraphs_running, event_stream, receiver, queue, parked,
                   delivered, enqueued, failed, startedOk, owner, takes>>

\* The insert moved ahead of the load: a call that fails to load has inserted.
LoadAfterInsert(c, ok) ==
    /\ calls[c].pc = "load"
    /\ IF ok
       THEN /\ Set(c, [calls[c] EXCEPT !.pc = "insert",
                        !.subgraph = ExtendDataSources(calls[c].subgraph, <<"dynamic">>)])
            /\ UNCHANGED <<subgraphs_running, owner>>
       ELSE /\ subgraphs_running' = subgraphs_running \cup {calls[c].subgraph.id}
            /\ owner' = [owner EXCEPT ![calls[c].subgraph.id] = c]
            /\ Set(c, [calls[c] EXCEPT !.pc = "map_err", !.inserted = TRUE,
                                       !.err = DynamicDataSourcesError])
    /\ UNCHANGED <<event_stream, receiver, queue, parked, delivered, enqueued,
                   failed, startedOk, takes>>

\* loader.load_dynamic_data_sources(id, ...).map_err(DynamicDataSourcesError).await?
\* followed by subgraph.data_sources.extend(data_sources)
LoadDynamicDataSources(c, ok) ==
    /\ calls[c].pc = "load"
    /\ IF ok
       THEN Set(c, [calls[c] EXCEPT !.pc = "insert",
                        !.subgraph = ExtendDataSources(calls[c].subgraph, <<"dynamic">>)])
       ELSE Set(c, [calls[c] EXCEPT !.pc = "map_err", !.err = DynamicDataSourcesError])
    /\ UNCHANGED <<subgraphs_running, event_stream, receiver, queue, parked,
                   delivered, enqueued, failed, startedOk, owner, takes>>

\* The insert with its result ignored: every call proceeds as the winner.
InsertRunningUnchecked(c) ==
    /\ calls[c].pc = "insert"
    /\ subgraphs_running' = subgraphs_running \cup {calls[c].subgraph.id}
    /\ owner' = [owner EXCEPT ![calls[c].subgraph.id] = c]
    /\ Set(c, [calls[c] EXCEPT !.pc = "index", !.inserted = TRUE])
    /\ UNCHANGED <<event_stream, receiver, queue, parked, delivered, enqueued,
                   failed, startedOk, takes>>

\* The losing insert evicts the entry it collided with before failing.
InsertRunningEvicting(c) ==
    /\ calls[c].pc = "insert"
    /\ IF calls[c].subgraph.id \in subgraphs_running
       THEN /\ Set(c, [calls[c] EXCEPT !.pc = "map_err",
                                       !.err = AlreadyRunning(calls[c].subgraph.id)])
            /\ subgraphs_running' = subgraphs_running \ {calls[c].subgraph.id}
            /\ owner' = [owner EXCEPT ![calls[c].subgraph.id] = 0]
       ELSE /\ subgraphs_running' = subgraphs_running \cup {calls[c].subgraph.id}
            /\ owner' = [owner EXCEPT ![calls[c].subgraph.id] = c]
            /\ Set(c, [calls[c] EXCEPT !.pc = "index", !.inserted = TRUE])
    /\ UNCHANGED <<event_stream, receiver, queue, parked, delivered, enqueued,
                   failed, startedOk, takes>>

\* if !subgraphs_running.lock().unwrap().insert(subgraph.id.clone()) { return Err(AlreadyRunning) }
InsertRunning(c) ==
    /\ calls[c].pc = "insert"
    /\ IF calls[c].subgraph.id \in subgraphs_running
       THEN /\ Set(c, [calls[c] EXCEPT !.pc = "map_err",
                                       !.err = AlreadyRunning(calls[c].subgraph.id)])
            /\ UNCHANGED <<subgraphs_running, owner>>
       ELSE /\ subgraphs_running' = subgraphs_running \cup {calls[c].subgraph.id}
            /\ owner' = [owner EXCEPT ![calls[c].subgraph.id] = c]
            /\ Set(c, [calls[c] EXCEPT !.pc = "index", !.inserted = TRUE])
    /\ UNCHANGED <<event_stream, receiver, queue, parked, delivered, enqueued,
                   failed, startedOk, takes>>

\* The index build's error propagated with `?` instead of dropped by .ok().
BuildIndexesPropagating(c, ok) ==
    /\ calls[c].pc = "index"
    /\ IF ok
       THEN Set(c, [calls[c] EXCEPT !.pc = "send", !.indexes = "built"])
       ELSE Set(c, [calls[c] EXCEPT !.pc = "map_err", !.indexes = "failed",
                                    !.err = <<"StoreError">>])
    /\ UNCHANGED <<subgraphs_running, event_stream, receiver, queue, parked,
                   delivered, enqueued, failed, startedOk, owner, takes>>

\* store.build_entity_attribute_indexes(...).map(|_| info!(...)).ok()
BuildIndexes(c, ok) ==
    /\ calls[c].pc = "index"
    /\ Set(c, [calls[c] EXCEPT !.pc = "send",
                               !.indexes = IF ok THEN "built" ELSE "failed"])
    /\ UNCHANGED <<subgraphs_running, event_stream, receiver, queue, parked,
                   delivered, enqueued, failed, startedOk, owner, takes>>

\* The send retried for as long as the channel is closed.
SendStartRetrying(c) ==
    /\ calls[c].pc = "send"
    /\ IF receiver = "closed"
       THEN UNCHANGED <<calls, queue, parked, enqueued>>
       ELSE /\ Enqueue(c, StartEvent(calls[c].subgraph))
            /\ Set(c, [calls[c] EXCEPT !.pc = "flush", !.sent = @ + 1,
                                       !.pos = Len(enqueued) + 1])
    /\ UNCHANGED <<subgraphs_running, event_stream, receiver, delivered,
                   failed, startedOk, owner, takes>>

\* The send error mapped to a typed error and returned instead of panicking.
SendStartTypedError(c) ==
    /\ calls[c].pc = "send"
    /\ IF receiver = "closed"
       THEN /\ Set(c, [calls[c] EXCEPT !.pc = "map_err", !.err = <<"SendError">>])
            /\ ChanUnchanged
       ELSE /\ Enqueue(c, StartEvent(calls[c].subgraph))
            /\ Set(c, [calls[c] EXCEPT !.pc = "flush", !.sent = @ + 1,
                                       !.pos = Len(enqueued) + 1])
    /\ UNCHANGED <<subgraphs_running, event_stream, receiver, delivered,
                   failed, startedOk, owner, takes>>

\* The send handed to a spawned task: Ok(()) reaches the caller first and the
\* event is enqueued whenever the task runs.
SendStartDetached(c) ==
    /\ calls[c].pc = "send"
    /\ IF calls[c].result = NoResult
       THEN /\ Set(c, [calls[c] EXCEPT !.result = Ok])
            /\ ChanUnchanged
       ELSE IF receiver = "closed"
       THEN /\ Set(c, [calls[c] EXCEPT !.pc = "panicked"])
            /\ ChanUnchanged
       ELSE /\ Enqueue(c, StartEvent(calls[c].subgraph))
            /\ Set(c, [calls[c] EXCEPT !.pc = "flush", !.sent = @ + 1,
                                       !.pos = Len(enqueued) + 1])
    /\ UNCHANGED <<subgraphs_running, event_stream, receiver, delivered,
                   failed, startedOk, owner, takes>>

\* event_sink.clone().send(SubgraphStart(subgraph)): an error of the send panics.
SendStart(c) ==
    /\ calls[c].pc = "send"
    /\ IF receiver = "closed"
       THEN /\ Set(c, [calls[c] EXCEPT !.pc = "panicked"])
            /\ ChanUnchanged
       ELSE /\ Enqueue(c, StartEvent(calls[c].subgraph))
            /\ Set(c, [calls[c] EXCEPT !.pc = "flush", !.sent = @ + 1,
                               !.pos = Len(enqueued) + 1])
    /\ UNCHANGED <<subgraphs_running, event_stream, receiver, delivered,
                   failed, startedOk, owner, takes>>

\* The send spawned instead of awaited: Ok(()) without waiting for the enqueue.
ReturnOkFireAndForget(c) ==
    /\ calls[c].pc \in {"send", "flush"}
    /\ Set(c, [calls[c] EXCEPT !.pc = "done", !.result = Ok])
    /\ startedOk' = [startedOk EXCEPT ![calls[c].id] = TRUE]
    /\ UNCHANGED <<subgraphs_running, event_stream, receiver, queue, parked,
                   delivered, enqueued, failed, owner, takes>>

\* The marker written by a closure chained on every outcome, not on the error.
ReturnOkMarking(c) ==
    /\ calls[c].pc = "flush"
    /\ Unparked(c)
    /\ failed' = failed \cup {calls[c].id}
    /\ Set(c, [calls[c] EXCEPT !.pc = "done", !.result = Ok, !.marks = @ + 1,
                               !.marked = "written"])
    /\ startedOk' = [startedOk EXCEPT ![calls[c].id] = TRUE]
    /\ UNCHANGED <<subgraphs_running, event_stream, receiver, queue, parked,
                   delivered, enqueued, owner, takes>>

\* .compat().await completes once the sender is no longer parked; Ok(())
ReturnOk(c) ==
    /\ calls[c].pc = "flush"
    /\ Unparked(c)
    /\ Set(c, [calls[c] EXCEPT !.pc = "done", !.result = Ok])
    /\ startedOk' = [startedOk EXCEPT ![calls[c].id] = TRUE]
    /\ UNCHANGED <<subgraphs_running, event_stream, receiver, queue, parked,
                   delivered, enqueued, failed, owner, takes>>

\* The closure propagating the error of its own write with `?`.
MapErrResultMasked(e, marked) == IF marked = "failed" THEN <<"StoreError">> ELSE e

\* The value the map_err closure hands back: the error it was given, whatever
\* apply_metadata_operations returned.
MapErrResult(e, marked) == e

\* The marker written for resolution errors only, AlreadyRunning left out.
MarkFailedUnlessAlreadyRunning(c, ok) ==
    /\ calls[c].pc = "map_err"
    /\ IF calls[c].err = AlreadyRunning(calls[c].id)
       THEN /\ UNCHANGED failed
            /\ Set(c, [calls[c] EXCEPT !.pc = "err_return"])
       ELSE /\ failed' = IF ok THEN failed \cup {calls[c].id} ELSE failed
            /\ Set(c, [calls[c] EXCEPT !.pc = "err_return", !.marks = @ + 1,
                                       !.marked = IF ok THEN "written" ELSE "failed"])
    /\ UNCHANGED <<subgraphs_running, event_stream, receiver, queue, parked,
                   delivered, enqueued, startedOk, owner, takes>>

\* .map_err(move |e| { let _ignore_error = store.apply_metadata_operations(
\*     update_failed_operations(&subgraph_id, true)); ... })
MarkFailed(c, ok) ==
    /\ calls[c].pc = "map_err"
    /\ failed' = IF ok THEN failed \cup {calls[c].id} ELSE failed
    /\ Set(c, [calls[c] EXCEPT !.pc = "err_return", !.marks = @ + 1,
                               !.marked = IF ok THEN "written" ELSE "failed"])
    /\ UNCHANGED <<subgraphs_running, event_stream, receiver, queue, parked,
                   delivered, enqueued, startedOk, owner, takes>>

\* ... e }): the closure's value is the future's error.
ReturnErr(c) ==
    /\ calls[c].pc = "err_return"
    /\ Set(c, [calls[c] EXCEPT !.pc = "done",
                               !.result = MapErrResult(calls[c].err, calls[c].marked)])
    /\ UNCHANGED <<subgraphs_running, event_stream, receiver, queue, parked,
                   delivered, enqueued, failed, startedOk, owner, takes>>

\* ---------------------------------------------------------------- stop()
\* The result of remove() ignored: the Stop event is sent for any id.
StopCallUnchecked(c, i) ==
    /\ NextCall(c)
    /\ InUse(i)
    /\ subgraphs_running' = subgraphs_running \ {i}
    /\ startedOk' = [startedOk EXCEPT ![i] = FALSE]
    /\ owner' = [owner EXCEPT ![i] = 0]
    /\ Set(c, [IdleCall EXCEPT !.prior = HaveReturned, !.op = "stop", !.id = i,
                               !.pc = "stop_send",
                               !.removed = i \in subgraphs_running,
                               !.pre = startedOk[i]])
    /\ UNCHANGED <<event_stream, receiver, queue, parked, delivered, enqueued,
                   failed, takes>>

\* The stop sends its event but leaves the id in the running set.
StopCallKeepingEntry(c, i) ==
    /\ NextCall(c)
    /\ InUse(i)
    /\ IF i \in subgraphs_running
       THEN /\ UNCHANGED <<subgraphs_running, startedOk, owner>>
            /\ Set(c, [IdleCall EXCEPT !.prior = HaveReturned, !.op = "stop", !.id = i,
                                       !.pc = "stop_send",
                                       !.removed = TRUE, !.pre = startedOk[i]])
       ELSE /\ UNCHANGED <<subgraphs_running, startedOk, owner>>
            /\ Set(c, [IdleCall EXCEPT !.prior = HaveReturned, !.op = "stop", !.id = i,
                                       !.pc = "stop_err",
                                       !.err = NotRunning(i), !.pre = startedOk[i]])
    /\ UNCHANGED <<event_stream, receiver, queue, parked, delivered, enqueued,
                   failed, takes>>

\* stop(id): the removal runs in the call itself, the send in the future it returns.
StopCall(c, i) ==
    /\ NextCall(c)
    /\ InUse(i)
    /\ IF i \in subgraphs_running
       THEN /\ subgraphs_running' = subgraphs_running \ {i}
            /\ startedOk' = [startedOk EXCEPT ![i] = FALSE]
            /\ owner' = [owner EXCEPT ![i] = 0]
            /\ Set(c, [IdleCall EXCEPT !.prior = HaveReturned, !.op = "stop", !.id = i,
                                       !.pc = "stop_send",
                                       !.removed = TRUE, !.pre = startedOk[i]])
       ELSE /\ UNCHANGED <<subgraphs_running, startedOk, owner>>
            /\ Set(c, [IdleCall EXCEPT !.prior = HaveReturned, !.op = "stop", !.id = i,
                                       !.pc = "stop_err",
                                       !.err = NotRunning(i), !.pre = startedOk[i]])
    /\ UNCHANGED <<event_stream, receiver, queue, parked, delivered, enqueued,
                   failed, takes>>

\* event_sink.clone().send(SubgraphStop(id)).map_err(|e| panic!(...))
StopSend(c) ==
    /\ calls[c].pc = "stop_send"
    /\ IF receiver = "closed"
       THEN /\ Set(c, [calls[c] EXCEPT !.pc = "panicked"])
            /\ ChanUnchanged
       ELSE /\ Enqueue(c, StopEvent(calls[c].id))
            /\ Set(c, [calls[c] EXCEPT !.pc = "stop_flush", !.sent = @ + 1,
                               !.pos = Len(enqueued) + 1])
    /\ UNCHANGED <<subgraphs_running, event_stream, receiver, delivered,
                   failed, startedOk, owner, takes>>

\* .map(|_| ())
StopReturnOk(c) ==
    /\ calls[c].pc = "stop_flush"
    /\ Unparked(c)
    /\ Set(c, [calls[c] EXCEPT !.pc = "done", !.result = Ok])
    /\ UNCHANGED <<subgraphs_running, event_stream, receiver, queue, parked,
                   delivered, enqueued, failed, startedOk, owner, takes>>

\* future::err(NotRunning(id))
StopReturnErr(c) ==
    /\ calls[c].pc = "stop_err"
    /\ Set(c, [calls[c] EXCEPT !.pc = "done", !.result = calls[c].err])
    /\ UNCHANGED <<subgraphs_running, event_stream, receiver, queue, parked,
                   delivered, enqueued, failed, startedOk, owner, takes>>

\* ---------------------------------------------------------------- consumer
\* self.event_stream.take()
TakeEventStream ==
    /\ takes' = [streams |-> takes.streams + (IF event_stream = "Some" THEN 1 ELSE 0),
                 last |-> event_stream]
    /\ event_stream' = "None"
    /\ UNCHANGED <<subgraphs_running, receiver, queue, parked, delivered,
                   enqueued, failed, startedOk, owner, calls>>

\* self.event_stream.take() on the clone a start call works on
TakeFromClone(c) ==
    /\ calls[c].op = "start"
    /\ InFlight(c)
    /\ takes' = [streams |-> takes.streams
                                + (IF calls[c].event_stream = "Some" THEN 1 ELSE 0),
                 last |-> calls[c].event_stream]
    /\ Set(c, [calls[c] EXCEPT !.event_stream = "None"])
    /\ UNCHANGED <<subgraphs_running, event_stream, receiver, queue, parked,
                   delivered, enqueued, failed, startedOk, owner>>

\* The consumer polls the stream it took: the oldest event is delivered and
\* the longest-parked sender is released.
Receive ==
    /\ event_stream = "None"
    /\ receiver = "open"
    /\ queue # <<>>
    /\ delivered' = Append(delivered, Head(queue))
    /\ queue' = Tail(queue)
    /\ parked' = IF parked = <<>> THEN parked ELSE Tail(parked)
    /\ UNCHANGED <<subgraphs_running, event_stream, receiver, enqueued, failed,
                   startedOk, owner, takes, calls>>

\* The consumer drops the stream: the channel closes, what it still holds is
\* discarded and every parked sender is released.
DropStream ==
    /\ event_stream = "None"
    /\ receiver = "open"
    /\ receiver' = "closed"
    /\ queue' = <<>>
    /\ parked' = <<>>
    /\ UNCHANGED <<subgraphs_running, event_stream, delivered, enqueued, failed,
                   startedOk, owner, takes, calls>>

\* ---------------------------------------------------------------- spec
Next ==
    \/ \E c \in Calls, i \in Ids : StartCall(c, i)
    \/ \E c \in Calls, ok \in BOOLEAN : Resolve(c, ok)
    \/ \E c \in Calls, ok \in BOOLEAN : LoadDynamicDataSources(c, ok)
    \/ \E c \in Calls : InsertRunning(c)
    \/ \E c \in Calls, ok \in BOOLEAN : BuildIndexes(c, ok)
    \/ \E c \in Calls : SendStart(c)
    \/ \E c \in Calls : ReturnOk(c)
    \/ \E c \in Calls, ok \in BOOLEAN : MarkFailed(c, ok)
    \/ \E c \in Calls : ReturnErr(c)
    \/ \E c \in Calls, i \in Ids : StopCall(c, i)
    \/ \E c \in Calls : StopSend(c)
    \/ \E c \in Calls : StopReturnOk(c)
    \/ \E c \in Calls : StopReturnErr(c)
    \/ TakeEventStream
    \/ \E c \in Calls : TakeFromClone(c)
    \/ Receive
    \/ DropStream

Spec == Init /\ [][Next]_vars

\* The steps of call c once it has been issued: the polls of its future.
CallStep(c) ==
    \/ \E ok \in BOOLEAN : Resolve(c, ok)
    \/ \E ok \in BOOLEAN : LoadDynamicDataSources(c, ok)
    \/ InsertRunning(c)
    \/ \E ok \in BOOLEAN : BuildIndexes(c, ok)
    \/ SendStart(c)
    \/ ReturnOk(c)
    \/ \E ok \in BOOLEAN : MarkFailed(c, ok)
    \/ ReturnErr(c)
    \/ StopSend(c)
    \/ StopReturnOk(c)
    \/ StopReturnErr(c)

\* The executor polls every future that can make progress, and the resolver,
\* the loader and the store answer.
FairCalls == \A c \in Calls : WF_vars(CallStep(c))

\* Fair scheduling of the calls, with nothing said about the consumer.
SpecFair == Spec /\ FairCalls

\* Fair scheduling of the calls and a consumer that takes the stream and keeps
\* polling it for as long as it holds it.
SpecDraining == Spec /\ FairCalls /\ WF_vars(TakeEventStream) /\ WF_vars(Receive)

TypeOK ==
    /\ subgraphs_running \subseteq Ids
    /\ event_stream \in {"Some", "None"}
    /\ receiver \in {"open", "closed"}
    /\ failed \subseteq Ids
    /\ Len(queue) <= MaxCalls
    /\ \A c \in Calls : calls[c].marks \in 0..1 /\ calls[c].sent \in 0..1

\* ---------------------------------------------------------------- properties
IsStart(c) == calls[c].op = "start"
IsStop(c) == calls[c].op = "stop"
Returned(c) == calls[c].pc = "done"
StartsOf(i) == {c \in Calls : IsStart(c) /\ calls[c].id = i}
NoStopOf(i) == \A c \in Calls : ~(IsStop(c) /\ calls[c].id = i)
Resolved(c) == calls[c].err \notin {ResolveError, DynamicDataSourcesError}
ReturnedError(c) == IsStart(c) /\ Returned(c) /\ calls[c].result # Ok
\* The manifest start(i) assembles: resolved from the link, dynamic sources appended.
ManifestOf(i) == ExtendDataSources(ResolvedManifest(Link(i)), <<"dynamic">>)
Positions(kind, i) ==
    {k \in 1..Len(enqueued) : enqueued[k].kind = kind /\ enqueued[k].id = i}

\* C1: among the start(id) calls of an id no stop(id) was ever called on, at
\* most one has returned Ok; and once all of them have returned with their
\* manifest and dynamic data sources resolved, exactly one returned Ok and
\* every other one returned AlreadyRunning(id).
AtMostOneRunning ==
    \A i \in Ids : NoStopOf(i) =>
        /\ Cardinality({c \in StartsOf(i) : calls[c].result = Ok}) <= 1
        /\ (StartsOf(i) # {} /\ \A c \in StartsOf(i) : Returned(c) /\ Resolved(c))
            => /\ Cardinality({c \in StartsOf(i) : calls[c].result = Ok}) = 1
               /\ \A c \in StartsOf(i) :
                    calls[c].result # Ok => calls[c].result = AlreadyRunning(i)

\* Two start("a") calls have both returned, no stop("a") was called, and the
\* call issued second won the insertion while the first was still resolving.
AtMostOneRunningWitness ==
    /\ NoStopOf("a")
    /\ \E c, d \in StartsOf("a") :
        /\ c < d
        /\ Returned(c) /\ Returned(d)
        /\ calls[d].result = Ok
        /\ calls[c].result = AlreadyRunning("a")

\* C2: in the sequence of enqueued events, between any two SubgraphStart
\* events of one id there is a SubgraphStop event of that id.
OneStartPerStop ==
    \A i \in Ids : \A k1, k2 \in Positions("SubgraphStart", i) :
        k1 < k2 => \E k \in Positions("SubgraphStop", i) : k1 < k /\ k < k2

\* C3: a stop(id) call that has returned did so with success if and only if,
\* when it was called, a start(id) had returned Ok and no stop(id) had removed
\* id since.
StartStopSymmetry ==
    \A c \in Calls : IsStop(c) /\ Returned(c) =>
        (calls[c].result = Ok <=> calls[c].pre)

\* A call on id i is under way.
Busy(i) == \E c \in Calls : calls[c].id = i /\ InFlight(c)

\* C4: id is in subgraphs_running if and only if a start(id) has returned Ok
\* and no stop(id) has removed id since; stated for the states in which the
\* channel is open and no call on id is under way, where "has succeeded" has
\* one reading only.
RunningIffStarted ==
    \A i \in Ids : receiver = "open" /\ ~Busy(i) =>
        (i \in subgraphs_running <=> startedOk[i])

\* C5 as stated: after a start(id) call has returned an error other than
\* AlreadyRunning, id is not in subgraphs_running.
NoInsertOnFailureAbsent ==
    \A c \in Calls : ReturnedError(c) /\ ~Resolved(c) =>
        calls[c].id \notin subgraphs_running

\* C5 amended: a start(id) call that has returned a resolve error or a
\* dynamic-data-source load error never inserted id, and id is in
\* subgraphs_running afterwards only by the insert of another start(id) call.
NoInsertOnFailure ==
    \A c \in Calls : ReturnedError(c) /\ ~Resolved(c) =>
        /\ ~calls[c].inserted
        /\ owner[calls[c].id] # c
        /\ calls[c].id \in subgraphs_running =>
               \E d \in StartsOf(calls[c].id) : d # c /\ calls[d].inserted

\* A start("a") call has returned a dynamic-data-source load error without
\* having inserted, while "a" is in subgraphs_running by another call's insert.
NoInsertOnFailureWitness ==
    \E c, d \in StartsOf("a") :
        /\ c # d
        /\ Returned(c) /\ calls[c].result = DynamicDataSourcesError
        /\ ~calls[c].inserted
        /\ owner["a"] = d /\ "a" \in subgraphs_running

\* C6: a start(id) call that ended without success, by returning an error or
\* by panicking on the closed channel, does not own an entry of
\* subgraphs_running.
NoHalfStarted ==
    \A c \in Calls :
        IsStart(c) /\ (calls[c].pc = "panicked" \/ ReturnedError(c)) =>
            owner[calls[c].id] # c

\* C7: the failure marker write is issued exactly once by every start(id) call
\* that returns an error, AlreadyRunning included, and before it returns: no
\* write while the error is pending, one write when the closure has run, and a
\* result only after that.
MarkedOncePerError ==
    \A c \in Calls : IsStart(c) =>
        /\ calls[c].pc = "map_err" => calls[c].marks = 0 /\ calls[c].result = NoResult
        /\ calls[c].pc = "err_return" => calls[c].marks = 1 /\ calls[c].result = NoResult
        /\ ReturnedError(c) => calls[c].marks = 1
        /\ calls[c].result \in {ResolveError, DynamicDataSourcesError,
                                AlreadyRunning(calls[c].id)} => calls[c].marks = 1

\* A start("a") call has returned AlreadyRunning("a") with its one write issued.
MarkedOncePerErrorWitness ==
    \E c \in StartsOf("a") :
        /\ Returned(c)
        /\ calls[c].result = AlreadyRunning("a")
        /\ calls[c].marks = 1

\* C8: the error a start(id) call returns is the error its pipeline failed
\* with, whether the failure marker write succeeded or failed.
OriginalErrorReturned ==
    \A c \in Calls : IsStart(c) /\ Returned(c) /\ calls[c].marks = 1 =>
        /\ calls[c].result = calls[c].err
        /\ calls[c].result \in {ResolveError, DynamicDataSourcesError,
                                AlreadyRunning(calls[c].id)}

\* Two start("a") calls have returned the same resolve error, the first after
\* a failed marker write and the second after a successful one.
OriginalErrorReturnedWitness ==
    \E c, d \in StartsOf("a") :
        /\ c # d
        /\ Returned(c) /\ Returned(d)
        /\ calls[c].result = ResolveError /\ calls[d].result = ResolveError
        /\ calls[c].marked = "failed" /\ calls[d].marked = "written"

\* C9: a start(id) call that has returned Ok has enqueued its SubgraphStart
\* event, which carries the manifest of id.
StartEnqueuedBeforeOk ==
    \A c \in Calls : IsStart(c) /\ calls[c].result = Ok =>
        /\ calls[c].sent = 1
        /\ \E k \in 1..Len(enqueued) : enqueued[k] = StartEvent(ManifestOf(calls[c].id))

\* A start("a") call has returned Ok and the event it enqueued is still in
\* the channel.
StartEnqueuedBeforeOkWitness ==
    \E c \in StartsOf("a") :
        /\ Returned(c) /\ calls[c].result = Ok
        /\ queue # <<>> /\ queue[Len(queue)] = StartEvent(ManifestOf("a"))

\* C10: a start(id) call that has returned Ok enqueued exactly one event and
\* wrote no failure marker, and the channel has been given exactly one
\* SubgraphStart event of id for each start(id) call that sent.
OkStartSendsOnceNoMarker ==
    /\ \A c \in Calls : IsStart(c) /\ calls[c].result = Ok =>
        calls[c].sent = 1 /\ calls[c].marks = 0 /\ calls[c].marked = "none"
    /\ \A i \in Ids :
        Cardinality(Positions("SubgraphStart", i))
            = Cardinality({c \in StartsOf(i) : calls[c].sent = 1})
    /\ \A i \in Ids :
        (\A c \in StartsOf(i) : calls[c].marks = 0) => i \notin failed

\* A start("a") call has returned Ok, the one SubgraphStart event of "a" is
\* enqueued and "a" carries no failure marker.
OkStartSendsOnceNoMarkerWitness ==
    /\ \E c \in StartsOf("a") : Returned(c) /\ calls[c].result = Ok
    /\ Cardinality(Positions("SubgraphStart", "a")) = 1
    /\ "a" \notin failed

StopsOf(i) == {c \in Calls : IsStop(c) /\ calls[c].id = i}

\* What a stop(id) call that has returned did: it removed id, enqueued one
\* SubgraphStop(id) and returned Ok, or it found id absent, returned
\* NotRunning(id) and enqueued nothing; it wrote no failure marker either way.
StopOutcome ==
    /\ \A c \in Calls : IsStop(c) /\ Returned(c) =>
        /\ calls[c].marks = 0 /\ calls[c].marked = "none"
        /\ IF calls[c].removed
           THEN /\ calls[c].result = Ok
                /\ calls[c].sent = 1
                /\ Positions("SubgraphStop", calls[c].id) # {}
           ELSE /\ calls[c].result = NotRunning(calls[c].id)
                /\ calls[c].sent = 0
    /\ \A i \in Ids :
        Cardinality(Positions("SubgraphStop", i))
            = Cardinality({c \in StopsOf(i) : calls[c].sent = 1})

\* The step in which stop(id) is called: a member id is removed, an absent id
\* leaves subgraphs_running as it was; and no step of a stop call touches the
\* failure markers, nor does a step of a stop call of an absent id enqueue.
StopStep ==
    \A c \in Calls :
        /\ calls[c].pc = "idle" /\ calls'[c].op = "stop" =>
            /\ calls'[c].removed = (calls'[c].id \in subgraphs_running)
            /\ subgraphs_running' = subgraphs_running \ {calls'[c].id}
            /\ enqueued' = enqueued
        /\ calls'[c].op = "stop" /\ calls'[c] # calls[c] =>
            /\ failed' = failed
            /\ ~calls'[c].removed => enqueued' = enqueued /\ queue' = queue

\* C11: stop(id) on an id in subgraphs_running removes it, enqueues exactly
\* one SubgraphStop(id) and returns success; stop(id) on an id not in it
\* returns NotRunning(id), enqueues nothing, writes no failure marker and
\* leaves subgraphs_running unchanged.
StopContract == []StopOutcome /\ [][StopStep]_vars

\* A stop("a") call has removed "a", sent its event and returned Ok, and a
\* later stop("a") call has returned NotRunning("a") having sent nothing.
StopContractWitness ==
    \E c, d \in StopsOf("a") :
        /\ c < d
        /\ Returned(c) /\ calls[c].removed /\ calls[c].result = Ok /\ calls[c].sent = 1
        /\ Returned(d) /\ ~calls[d].removed /\ calls[d].result = NotRunning("a")
        /\ calls[d].sent = 0
        /\ "a" \notin subgraphs_running /\ "a" \notin failed

\* The event a call sends.
EventOf(c) ==
    IF IsStart(c) THEN StartEvent(ManifestOf(calls[c].id)) ELSE StopEvent(calls[c].id)

\* The consumer has observed the event of call c.
Observed(c) == calls[c].pos \in 1..Len(delivered)

\* C12: the consumer receives the events in the order they were enqueued, and
\* when an operation had returned Ok before another one was called, its event
\* is enqueued, and so observed, before the event of the other.
EventOrdering ==
    /\ Len(delivered) <= Len(enqueued)
    /\ \A k \in 1..Len(delivered) : delivered[k] = enqueued[k]
    /\ receiver = "open" => enqueued = delivered \o queue
    /\ \A c \in Calls : calls[c].pos > 0 =>
        calls[c].pos <= Len(enqueued) /\ enqueued[calls[c].pos] = EventOf(c)
    /\ \A d \in Calls : \A c \in calls[d].prior :
        calls[c].result = Ok /\ calls[d].pos > 0 =>
            /\ calls[c].pos > 0 /\ calls[c].pos < calls[d].pos
            /\ Observed(d) => Observed(c)

\* start("a") returned Ok, then start("b") was called and returned Ok, and the
\* consumer has received SubgraphStart("a") and then SubgraphStart("b").
EventOrderingWitness ==
    \E c \in StartsOf("a"), d \in StartsOf("b") :
        /\ c \in calls[d].prior
        /\ calls[c].result = Ok /\ calls[d].result = Ok
        /\ Observed(c) /\ Observed(d)
        /\ delivered[calls[c].pos].id = "a" /\ delivered[calls[d].pos].id = "b"
        /\ calls[c].pos < calls[d].pos

\* C13: a start(id) call whose index build has run, failed or not, is the
\* call that inserted id, carries no error and writes no failure marker; it
\* goes on to enqueue its SubgraphStart event and, when it returns, returns
\* Ok; id stays in subgraphs_running unless a stop(id) is called.  The same
\* holds for a failed and for a successful build.
BestEffortIndexing ==
    \A c \in Calls : IsStart(c) /\ calls[c].indexes # "none" =>
        /\ calls[c].inserted
        /\ calls[c].err = NoError
        /\ calls[c].marks = 0
        /\ calls[c].pc \in {"send", "flush", "done", "panicked"}
        /\ calls[c].pc \in {"flush", "done"} =>
               calls[c].sent = 1 /\ enqueued[calls[c].pos] = StartEvent(ManifestOf(calls[c].id))
        /\ calls[c].pc = "done" => calls[c].result = Ok
        /\ calls[c].pc = "panicked" => receiver = "closed"
        /\ NoStopOf(calls[c].id) =>
               calls[c].id \in subgraphs_running /\ owner[calls[c].id] = c

\* A start("a") call whose index build failed has enqueued its event and
\* returned Ok; "a" is running and carries no failure marker.
BestEffortIndexingWitness ==
    \E c \in StartsOf("a") :
        /\ calls[c].indexes = "failed"
        /\ Returned(c) /\ calls[c].result = Ok /\ calls[c].sent = 1
        /\ "a" \in subgraphs_running /\ "a" \notin failed

\* What the take_event_stream() calls made so far have handed out: at most one
\* stream, the root's, and the clones of the start calls hold none.
OneStream ==
    /\ takes.streams <= 1
    /\ takes.streams = 1 <=> event_stream = "None"
    /\ takes.last = "Some" => takes.streams = 1
    /\ \A c \in Calls : calls[c].event_stream = "None"

\* A take_event_stream() call returns a stream only if it is the first one on
\* the root, which then holds none; every call after it returns None.
TakeStep ==
    takes' # takes =>
        /\ takes'.last = "Some" <=>
               takes.streams = 0 /\ event_stream = "Some" /\ event_stream' = "None"
        /\ takes.streams >= 1 => takes'.last = "None" /\ takes'.streams = takes.streams

\* C14: over any sequence of take_event_stream() calls on the root and on the
\* clones start() makes, at most one call returns a stream: the first call on
\* the root does, every later call returns None, and the clones hold no stream.
SingleConsumer == []OneStream /\ [][TakeStep]_vars

\* The root has handed out its stream, a later take_event_stream() call has
\* returned None, and a start call is working on its clone.
SingleConsumerWitness ==
    /\ takes.streams = 1 /\ takes.last = "None"
    /\ event_stream = "None"
    /\ \E c \in Calls : IsStart(c) /\ InFlight(c)

\* No event is dropped while the consumer holds the stream: what was enqueued
\* is delivered or still in the channel, one event per call that sent; and a
\* sender is parked exactly while the channel holds more than its buffer, the
\* parked call not having returned.
NoLoss ==
    /\ receiver = "open" => enqueued = delivered \o queue
    /\ Len(enqueued) = Cardinality({c \in Calls : calls[c].sent = 1})
    /\ \A c \in Calls : calls[c].result = Ok => calls[c].sent = 1
    /\ receiver = "open" =>
        Len(parked) = (IF Len(queue) > ChanBuffer THEN Len(queue) - ChanBuffer ELSE 0)
    /\ \A c \in Calls : IsParked(c) => calls[c].pc \in {"flush", "stop_flush"}

\* C15: a producer that finds the channel at capacity waits and does not drop
\* its event, and with a consumer that keeps draining every enqueued event is
\* eventually delivered: again and again the consumer has received all that
\* was enqueued (delivered only grows, so each event enqueued before such a
\* moment has been delivered by then), unless the receiver was dropped.
BackpressureNoLoss ==
    /\ []NoLoss
    /\ []<>(delivered = enqueued \/ receiver = "closed")

\* The channel holds more than its buffer: the call that sent last waits
\* parked with its event in the channel, and the consumer has begun to drain.
BackpressureNoLossWitness ==
    /\ receiver = "open"
    /\ Len(queue) > ChanBuffer
    /\ Len(delivered) >= 1
    /\ \E c \in Calls :
        /\ IsParked(c) /\ calls[c].pc \in {"flush", "stop_flush"}
        /\ calls[c].pos = Len(enqueued)
        /\ queue[Len(queue)] = EventOf(c)

\* A call that panicked did so at its send, after its insert or removal, on
\* the closed channel; it has returned nothing and written no failure marker.
FatalOutcome ==
    \A c \in Calls : calls[c].pc = "panicked" =>
        /\ receiver = "closed"
        /\ calls[c].result = NoResult
        /\ calls[c].err = NoError
        /\ calls[c].marks = 0 /\ calls[c].marked = "none"
        /\ calls[c].sent = 0
        /\ IF IsStart(c) THEN calls[c].inserted ELSE calls[c].removed

\* A call that attempts its send on the closed channel panics, enqueuing
\* nothing and writing no marker, and a panicked call takes no further step.
FatalStep ==
    \A c \in Calls :
        /\ calls[c].pc \in {"send", "stop_send"} /\ receiver = "closed"
           /\ calls'[c] # calls[c] =>
               /\ calls'[c].pc = "panicked"
               /\ failed' = failed
               /\ enqueued' = enqueued
        /\ calls[c].pc = "panicked" => calls'[c] = calls[c]

\* C16: when the consumer side is torn down, a start that won the insertion
\* and a stop that removed its id terminate fatally at the send: neither Ok
\* nor a typed error is returned and no failure marker is written.
ClosedChannelFatal == []FatalOutcome /\ [][FatalStep]_vars

\* After the consumer dropped the stream, a stop("a") that removed "a" and a
\* start("a") that inserted it have both panicked; "a" carries no marker.
ClosedChannelFatalWitness ==
    /\ receiver = "closed"
    /\ "a" \notin failed
    /\ \E c \in StartsOf("a") : calls[c].pc = "panicked" /\ calls[c].inserted
    /\ \E d \in StopsOf("a") : calls[d].pc = "panicked" /\ calls[d].removed

\* The start call c has ended: it returned, or it panicked at its send.
Ended(c) == Returned(c) \/ calls[c].pc = "panicked"

\* The claim as stated: every start call that has begun eventually returns.
StartsReturn ==
    \A c \in Calls : (IsStart(c) /\ InFlight(c)) ~> Returned(c)

\* A start that returned an error did the marker write, and a start that
\* panicked did so on the closed channel.
StartEndings ==
    \A c \in Calls : IsStart(c) =>
        /\ ReturnedError(c) => calls[c].marks = 1 /\ calls[c].marked # "none"
        /\ calls[c].pc = "panicked" => receiver = "closed"

\* C17: with every call's future polled and a consumer that keeps receiving
\* from the event stream, every start call that has begun eventually ends:
\* it returns Ok or an error after the marker write, or it terminates fatally
\* at the send because the consumer dropped the stream. Again and again every
\* start begun so far has ended (a call in flight stays in flight until it
\* ends, so each one has ended by the next such moment).
StartsEnd ==
    /\ []StartEndings
    /\ []<>(\A c \in Calls : IsStart(c) /\ calls[c].pc # "idle" => Ended(c))

\* The three endings side by side: one start returned Ok, one returned an
\* error with the marker written, and one panicked on the closed channel.
StartsEndWitness ==
    /\ \E c \in Calls : IsStart(c) /\ calls[c].result = Ok /\ calls[c].sent = 1
    /\ \E c \in Calls : IsStart(c) /\ ReturnedError(c) /\ calls[c].marked = "written"
    /\ \E c \in Calls : IsStart(c) /\ calls[c].pc = "panicked"

\* The start call c failed its insert with AlreadyRunning.
LostInsert(c) == IsStart(c) /\ calls[c].err = AlreadyRunning(calls[c].id)

\* A call that lost the insert inserted nothing, requested no index build and
\* sent nothing; once returned it has done the one marker write. A stop of the
\* same id called after it returned, the only stop of that id, removed the id
\* and returns success.
AlreadyRunningOutcome ==
    \A c \in Calls : LostInsert(c) =>
        /\ ~calls[c].inserted
        /\ calls[c].indexes = "none"
        /\ calls[c].sent = 0 /\ calls[c].pos = 0
        /\ Returned(c) => calls[c].marks = 1 /\ calls[c].result = calls[c].err
        /\ \A d \in StopsOf(calls[c].id) :
            c \in calls[d].prior /\ StopsOf(calls[c].id) = {d} =>
                /\ calls[d].removed
                /\ Returned(d) => calls[d].result = Ok

\* Every step of a call that lost the insert, the losing insert included,
\* leaves the running set and the channel as they are; the entry it collided
\* with is still there after the losing insert; only the marker may be added.
AlreadyRunningStep ==
    \A c \in Calls : LostInsert(c)' /\ calls'[c] # calls[c] =>
        /\ subgraphs_running' = subgraphs_running
        /\ owner' = owner
        /\ enqueued' = enqueued /\ queue' = queue
        /\ failed' \subseteq failed \cup {calls[c].id}
        /\ calls[c].pc = "insert" => calls[c].id \in subgraphs_running'

\* C18: a start that ends with AlreadyRunning leaves the running set unchanged,
\* requests no index build and enqueues no event; its only side effect is the
\* marker write, and a later stop of the id still succeeds.
AlreadyRunningFrame == []AlreadyRunningOutcome /\ [][AlreadyRunningStep]_vars

\* start("a") returned Ok, a second start("a") returned AlreadyRunning with
\* the marker written, and the stop("a") called after that returned Ok.
AlreadyRunningFrameWitness ==
    \E c \in Calls, d \in Calls :
        /\ LostInsert(c) /\ Returned(c) /\ calls[c].marked = "written"
        /\ "a" \in failed /\ calls[c].id = "a"
        /\ IsStop(d) /\ calls[d].id = "a" /\ c \in calls[d].prior
        /\ Returned(d) /\ calls[d].result = Ok
        /\ Len(enqueued) = 2 /\ enqueued[2] = StopEvent("a")

\* c1, d, c2 are a start, a stop and a further start of one id, called one
\* after the other's return, the first two returned Ok, and they are the only
\* calls for that id.
RestartOf(c1, d, c2) ==
    /\ IsStart(c1) /\ IsStop(d) /\ IsStart(c2) /\ c1 # c2
    /\ calls[d].id = calls[c1].id /\ calls[c2].id = calls[c1].id
    /\ calls[c1].result = Ok /\ calls[d].result = Ok
    /\ c1 \in calls[d].prior /\ d \in calls[c2].prior
    /\ StartsOf(calls[c1].id) = {c1, c2} /\ StopsOf(calls[c1].id) = {d}

\* C19: after start(id) returned Ok and the following stop(id) returned Ok,
\* the id is out of the running set until the further start(id) inserts it
\* again; that start never gets AlreadyRunning, and when its resolution
\* succeeds it returns Ok with the id running and its new Start(id) enqueued
\* after the Stop(id), which is after the first Start(id).
RestartAfterStop ==
    \A c1 \in Calls, d \in Calls, c2 \in Calls : RestartOf(c1, d, c2) =>
        /\ ~LostInsert(c2)
        /\ (calls[c1].id \in subgraphs_running) = calls[c2].inserted
        /\ calls[c2].pc \in {"index", "send", "flush", "panicked"}
            => calls[c2].inserted
        /\ calls[c2].sent = 1 =>
            /\ calls[c1].pos < calls[d].pos /\ calls[d].pos < calls[c2].pos
            /\ enqueued[calls[c1].pos] = StartEvent(ManifestOf(calls[c1].id))
            /\ enqueued[calls[d].pos] = StopEvent(calls[c1].id)
            /\ enqueued[calls[c2].pos] = StartEvent(ManifestOf(calls[c1].id))
        /\ Returned(c2) /\ Resolved(c2) =>
            /\ calls[c2].result = Ok /\ calls[c2].sent = 1
            /\ calls[c2].inserted
            /\ calls[c1].id \in subgraphs_running
            /\ startedOk[calls[c1].id]

\* start("a"), stop("a"), start("a") one after the other, each returned Ok:
\* the channel carried Start(a), Stop(a), Start(a) and "a" is running again.
RestartAfterStopWitness ==
    /\ \E c1 \in Calls, d \in Calls, c2 \in Calls :
        RestartOf(c1, d, c2) /\ calls[c2].result = Ok /\ calls[c1].id = "a"
    /\ enqueued = <<StartEvent(ManifestOf("a")), StopEvent("a"),
                    StartEvent(ManifestOf("a"))>>
    /\ "a" \in subgraphs_running

\* The ids whose most recently enqueued event is a Start.
ConsumerView ==
    {i \in Ids : /\ Positions("SubgraphStart", i) # {}
                 /\ \A k \in Positions("SubgraphStop", i) :
                        \E n \in Positions("SubgraphStart", i) : n > k}

\* No call is in flight, and none panicked at a send on the closed channel.
Quiescent ==
    \A c \in Calls : ~InFlight(c) /\ calls[c].pc # "panicked"

\* C20: at quiescence the ids whose most recently enqueued event is Start are
\* the ids in subgraphs_running, whatever the interleaving of start and stop.
ConsumerViewAgrees ==
    Quiescent => ConsumerView = subgraphs_running

====
